---------------------------- MODULE Spec2Model ----------------------------
(***************************************************************************)
(* Frame-to-event-to-commentary pipeline of Advanced_Valo.                 *)
(*                                                                         *)
(* Three programs of the repository are modelled, each with its own        *)
(* specification over its own variables:                                   *)
(*   SpecEnhanced  EnhancedGameplayCommentator    (batch, events+filler)   *)
(*   SpecVideo     VideoCommentaryGenerator       (batch, rate limit)      *)
(*   SpecBridge    WebCommentaryBridge            (live, worker thread)    *)
(*                                                                         *)
(* Time is counted in ticks of half a second: the batch analysers sample   *)
(* a frame every int(fps * 0.5) frames, so every timestamp they produce is *)
(* a whole number of ticks for the frame rates enumerated here.            *)
(* OCR text is a sequence of one-character strings, so that substring      *)
(* tests, case folding and number parsing are computed, not assumed.       *)
(***************************************************************************)
EXTENDS Integers, Sequences, FiniteSets, TLC

(***************************************************************************)
(* Bounds of the model                                                     *)
(***************************************************************************)
\* frames of the short recording (several eventful frames fit in it)
ShortVideo == 6
\* frames of the long recording (long enough for three filler candidates)
LongVideo == 49
\* eventful frames allowed in a short recording
MaxEventful == 2
\* largest seed of the random module's generator (seeds are 0..MaxSeed)
MaxSeed == 1
\* synthesis calls that may fail in one voice pass
MaxSynthFailures == 1
\* frames of the recording VideoCommentaryGenerator processes
VideoFrames == 5
\* worker threads of the bridge that can be alive at once
MaxWorkers == 2

(***************************************************************************)
(* Program constants, in ticks or as the source writes them                *)
(***************************************************************************)
TicksPerSecond == 2
\* commentary_interval = 12 seconds
FillInterval == 24
\* abs(seg['timestamp'] - current_time) < 5 seconds
FillProximity == 10
\* commentary_interval default 2.0 seconds
MinInterval == 4
\* the override threshold of the scheduler (importance >= 4 bypasses)
OverrideImportance == 4
\* np.sum(gray_mask) > 1000
GrayThreshold == 1000
\* event.importance >= 3 gets commentary
CommentImportance == 3

(***************************************************************************)
(* Text: sequences of characters                                           *)
(***************************************************************************)
LowerSeq == <<"a","b","c","d","e","f","g","h","i","j","k","l","m","n","o","p","q","r","s","t","u","v","w","x","y","z">>
UpperSeq == <<"A","B","C","D","E","F","G","H","I","J","K","L","M","N","O","P","Q","R","S","T","U","V","W","X","Y","Z">>
DigitSeq == <<"0","1","2","3","4","5","6","7","8","9">>

\* str.lower() on one character
LowerChar(c) ==
  IF \E i \in 1..Len(UpperSeq) : UpperSeq[i] = c
  THEN LowerSeq[CHOOSE i \in 1..Len(UpperSeq) : UpperSeq[i] = c]
  ELSE c

\* str.upper() on one character
UpperChar(c) ==
  IF \E i \in 1..Len(LowerSeq) : LowerSeq[i] = c
  THEN UpperSeq[CHOOSE i \in 1..Len(LowerSeq) : LowerSeq[i] = c]
  ELSE c

Lower(text) == [i \in 1..Len(text) |-> LowerChar(text[i])]
Upper(text) == [i \in 1..Len(text) |-> UpperChar(text[i])]

\* Python's `sub in text`
Contains(sub, text) ==
  \E i \in 0..(Len(text) - Len(sub)) : SubSeq(text, i + 1, i + Len(sub)) = sub

IsDigit(c) == \E i \in 1..Len(DigitSeq) : DigitSeq[i] = c
DigitVal(c) == (CHOOSE i \in 1..Len(DigitSeq) : DigitSeq[i] = c) - 1

\* int() of a run of digits
RECURSIVE ParseInt(_)
ParseInt(ds) ==
  IF Len(ds) = 0 THEN 0
  ELSE 10 * ParseInt(SubSeq(ds, 1, Len(ds) - 1)) + DigitVal(ds[Len(ds)])

\* first index of the maximal digit run that ends at position p
RECURSIVE RunStart(_, _)
RunStart(text, p) ==
  IF p > 1 /\ IsDigit(text[p - 1]) THEN RunStart(text, p - 1) ELSE p

\* last index of the maximal digit run that starts at position p
RECURSIVE RunEnd(_, _)
RunEnd(text, p) ==
  IF p < Len(text) /\ IsDigit(text[p + 1]) THEN RunEnd(text, p + 1) ELSE p

\* positions of a separator with a digit on each side
SepPositions(text, sep) ==
  { p \in 2..(Len(text) - 1) :
      text[p] = sep /\ IsDigit(text[p - 1]) /\ IsDigit(text[p + 1]) }

\* re.search(r'\d+:\d+', text) found something
TimerMatch(text) == SepPositions(text, ":") /= {}

\* re.search(r'(\d+)-(\d+)', text) found something
ScoreMatch(text) == SepPositions(text, "-") /= {}

\* the separator of the leftmost match
LeftmostSep(text, sep) ==
  CHOOSE p \in SepPositions(text, sep) : \A q \in SepPositions(text, sep) : p <= q

\* group 1 as (\d) would capture it: the one digit before the separator
ScoreGroup1_OneDigit(text) ==
  LET p == LeftmostSep(text, "-")
  IN  ParseInt(SubSeq(text, p - 1, p - 1))

ScoreGroup1(text) ==
  LET p == LeftmostSep(text, "-")
  IN  ParseInt(SubSeq(text, RunStart(text, p - 1), p - 1))

ScoreGroup2(text) ==
  LET p == LeftmostSep(text, "-")
  IN  ParseInt(SubSeq(text, p + 1, RunEnd(text, p + 1)))


(***************************************************************************)
(* GameplayAnalyzer (enhanced_gameplay_commentator.py)                     *)
(***************************************************************************)
weapons ==
  << <<"V","A","N","D","A","L">>,
     <<"P","H","A","N","T","O","M">>,
     <<"O","P","E","R","A","T","O","R">>,
     <<"S","H","E","R","I","F","F">>,
     <<"G","H","O","S","T">>,
     <<"C","L","A","S","S","I","C">>,
     <<"A","R","E","S">>,
     <<"O","D","I","N">>,
     <<"S","P","E","C","T","R","E">>,
     <<"J","U","D","G","E">>,
     <<"B","U","C","K","Y">>,
     <<"S","H","O","R","T","Y">>,
     <<"B","U","L","L","D","O","G">>,
     <<"G","U","A","R","D","I","A","N">>,
     <<"M","A","R","S","H","A","L">>,
     <<"F","R","E","N","Z","Y">>,
     <<"S","T","I","N","G","E","R">> >>

NoText == <<>>

\* the description of an event, with the values its f-string interpolates
Description(kind, weapon, round, team1, team2) ==
  [kind |-> kind, weapon |-> weapon, round |-> round, team1 |-> team1, team2 |-> team2]

\* the dataclass GameplayEvent; location "None" is Python's None
GameplayEvent(timestamp, event_type, description, importance, players_involved, location) ==
  [timestamp |-> timestamp, event_type |-> event_type, description |-> description,
   importance |-> importance, players_involved |-> players_involved,
   location |-> location]

\* weapons in the text, as indices of self.weapons, in list order
WeaponsIn(text) ==
  { w \in 1..Len(weapons) : Contains(Lower(weapons[w]), Lower(text)) }

\* _parse_kill_text with the headshot test moved before the weapon loop
_parse_kill_text_HeadshotFirst(text, timestamp) ==
  IF Contains(<<"h","e","a","d","s","h","o","t">>, Lower(text))
     \/ Contains(<<"h","s">>, Lower(text))
  THEN << GameplayEvent(timestamp, "headshot",
            Description("Headshot elimination", NoText, 0, 0, 0),
            5, <<"Unknown Player">>, "None") >>
  ELSE IF WeaponsIn(text) /= {}
  THEN LET w == CHOOSE x \in WeaponsIn(text) : \A v \in WeaponsIn(text) : x <= v
       IN  << GameplayEvent(timestamp, "elimination",
                Description("Elimination with", weapons[w], 0, 0, 0),
                4, <<"Unknown Player">>, "Unknown") >>
  ELSE << >>

\* Optional[GameplayEvent] as a sequence of at most one event
_parse_kill_text(text, timestamp) ==
  IF WeaponsIn(text) /= {}
  THEN LET w == CHOOSE x \in WeaponsIn(text) : \A v \in WeaponsIn(text) : x <= v
       IN  << GameplayEvent(timestamp, "elimination",
                Description("Elimination with", weapons[w], 0, 0, 0),
                4, <<"Unknown Player">>, "Unknown") >>
  ELSE IF Contains(<<"h","e","a","d","s","h","o","t">>, Lower(text))
          \/ Contains(<<"h","s">>, Lower(text))
  THEN << GameplayEvent(timestamp, "headshot",
            Description("Headshot elimination", NoText, 0, 0, 0),
            5, <<"Unknown Player">>, "None") >>
  ELSE << >>

\* results: the (text, confidence) pairs the reader returns for the region
RECURSIVE detect_kill_feed_events(_, _)
detect_kill_feed_events(results, timestamp) ==
  IF results = << >> THEN << >>
  ELSE (IF Head(results).conf > 50
        THEN _parse_kill_text(Head(results).text, timestamp)
        ELSE << >>)
       \o detect_kill_feed_events(Tail(results), timestamp)

RECURSIVE detect_round_phase(_)
detect_round_phase(results) ==
  IF results = << >> THEN "ACTION_PHASE"
  ELSE IF Head(results).conf > 60 /\ TimerMatch(Head(results).text)
  THEN (IF Contains(<<"B","U","Y">>, Upper(Head(results).text))
           \/ Contains(<<"P","R","E","P">>, Upper(Head(results).text))
        THEN "PREP_PHASE"
        ELSE "ACTION_PHASE")
  ELSE detect_round_phase(Tail(results))

detect_ability_usage(gray_sum, timestamp) ==
  IF gray_sum > GrayThreshold
  THEN << GameplayEvent(timestamp, "ability_used",
            Description("Ability usage detected", NoText, 0, 0, 0),
            3, <<"Unknown Player">>, "None") >>
  ELSE << >>

RECURSIVE detect_tactical_events(_, _)
detect_tactical_events(results, timestamp) ==
  IF results = << >> THEN << >>
  ELSE LET text_upper == Upper(Head(results).text)
       IN  (IF Head(results).conf > 60
            THEN (IF Contains(<<"P","L","A","N","T">>, text_upper)
                     \/ Contains(<<"S","P","I","K","E">>, text_upper)
                  THEN << GameplayEvent(timestamp, "spike_plant",
                            Description("Spike plant detected", NoText, 0, 0, 0),
                            5, <<"Attacker">>, "None") >>
                  ELSE IF Contains(<<"D","E","F","U","S">>, text_upper)
                  THEN << GameplayEvent(timestamp, "spike_defuse",
                            Description("Defuse attempt detected", NoText, 0, 0, 0),
                            5, <<"Defender">>, "None") >>
                  ELSE << >>)
            ELSE << >>)
           \o detect_tactical_events(Tail(results), timestamp)

DefaultScoreInfo == [round |-> 1, team1_score |-> 0, team2_score |-> 0]

\* the loop over the results, each match overwriting score_info
RECURSIVE ScoreLoop(_, _)
ScoreLoop(results, score_info) ==
  IF results = << >> THEN score_info
  ELSE IF Head(results).conf > 70 /\ ScoreMatch(Head(results).text)
  THEN LET a == ScoreGroup1(Head(results).text)
           b == ScoreGroup2(Head(results).text)
       IN  ScoreLoop(Tail(results),
                     [round |-> a + b + 1, team1_score |-> a, team2_score |-> b])
  ELSE ScoreLoop(Tail(results), score_info)

analyze_scoreboard(results) == ScoreLoop(results, DefaultScoreInfo)


(***************************************************************************)
(* The recording: what perception reads in each region of a frame          *)
(***************************************************************************)
\* one OCR result: recognised text and confidence in percent
Ocr(text, conf) == [text |-> text, conf |-> conf]

Frame(timer, score, kill, gray, tactical) ==
  [timer |-> timer, score |-> score, kill |-> kill, gray |-> gray,
   tactical |-> tactical]

BlankFrame == Frame(<< >>, << >>, << >>, 0, << >>)

TimerFrames ==
  { Frame(<< Ocr(t, c) >>, << >>, << >>, 0, << >>) :
      t \in { <<"B","U","Y"," ","0",":","3","0">>,
              <<"1",":","4","0">>,
              <<"B","U","Y">> },
      c \in { 90 } }

ScoreFrames ==
  { Frame(<< >>, << Ocr(t, c) >>, << >>, 0, << >>) :
      t \in { <<"1","-","0">>, <<"2","-","1">>, <<"1","2","-","1","0">> },
      c \in { 80 } }
  \cup { Frame(<< >>, << Ocr(<<"2","-","1">>, 65) >>, << >>, 0, << >>) }

KillFrames ==
  { Frame(<< >>, << >>, << Ocr(t, 60) >>, 0, << >>) :
      t \in { <<"J","e","t","t"," ","V","a","n","d","a","l"," ","S","a","g","e">>,
              <<"G","h","o","s","t"," ","h","e","a","d","s","h","o","t">>,
              <<"h","s">>,
              <<"g","g">> } }

AbilityFrames == { Frame(<< >>, << >>, << >>, 2000, << >>) }

TacticalFrames ==
  { Frame(<< >>, << >>, << >>, 0, << Ocr(t, 80) >>) :
      t \in { <<"S","P","I","K","E"," ","P","L","A","N","T","E","D">>,
              <<"D","E","F","U","S","I","N","G">>,
              <<"D","E","F","U","S","I","N","G"," ","S","P","I","K","E">> } }

FrameInputs ==
  {BlankFrame} \cup TimerFrames \cup ScoreFrames \cup KillFrames
  \cup AbilityFrames \cup TacticalFrames

\* frame rates of the recordings: 1 gives frame_skip = int(0.5) = 0
FpsChoices == {1, 2}
FrameCounts == {ShortVideo, LongVideo}

\* eventful (non-blank) frames a recording of n frames may hold
EventBudget(n) == IF n <= ShortVideo THEN MaxEventful ELSE 1

\* What the detectors make of each sample frame, computed once.  A detector
\* uses its timestamp argument only to stamp the events it returns, so the
\* table holds them stamped 0 and StampAll sets the frame's timestamp.
FrameReading ==
  [f \in FrameInputs |->
     [current_phase |-> detect_round_phase(f.timer),
      score_info |-> analyze_scoreboard(f.score),
      kill_events |-> detect_kill_feed_events(f.kill, 0),
      ability_events |-> detect_ability_usage(f.gray, 0),
      tactical_events |-> detect_tactical_events(f.tactical, 0)]]

StampAll(events, timestamp) ==
  [i \in 1..Len(events) |-> [events[i] EXCEPT !.timestamp = timestamp]]

(***************************************************************************)
(* EnhancedGameplayCommentator: state                                      *)
(***************************************************************************)
VARIABLES
  e_pc,                 \* position in main(): analyze, fill, voice, synth, done, crashed
  fps,                  \* cap.get(CAP_PROP_FPS)
  total_frames,         \* cap.get(CAP_PROP_FRAME_COUNT)
  frame_count,
  last_round_phase,
  last_score_info,
  events_detected,      \* self.events_detected
  commentary_segments,  \* self.commentary_segments
  current_time,         \* of _add_general_commentary, in ticks
  VOICE_ENABLED,        \* module flag: the elevenlabs import succeeded
  synth_i,              \* index of the segment the voice pass is at
  audio_files,          \* audio files written by the voice pass
  saved_results,        \* what _save_results has written (at most one file)
  eventful,             \* eventful frames read so far
  rng                   \* state of the random module's generator

evars == << e_pc, fps, total_frames, frame_count, last_round_phase,
            last_score_info, events_detected, commentary_segments,
            current_time, VOICE_ENABLED, synth_i, audio_files, saved_results,
            eventful, rng >>

VARIABLES
  v_pc,                  \* position in process_video: process, done
  processors,            \* which of the three processors were initialised
  v_fps,                 \* self.fps
  v_frame_interval,      \* frame_interval
  v_frames,              \* frame numbers extract_frames_from_video returned
  v_i,                   \* index of the frame the for loop is at
  last_commentary_time,  \* self.last_commentary_time, in ticks
  all_commentary,        \* self.all_commentary
  frame_analysis,        \* self.frame_analysis
  v_saved,               \* what _save_results has written
  v_eventful             \* frames with predictions read so far

vvars == << v_pc, processors, v_fps, v_frame_interval, v_frames, v_i,
            last_commentary_time, all_commentary, frame_analysis, v_saved,
            v_eventful >>

VARIABLES
  commentary_active,     \* self.commentary_active
  session_id,            \* self.session_id
  ocr_processor,         \* self.ocr_processor is set
  commentary_generator,  \* self.commentary_generator is set
  stop_event,            \* self.stop_event.is_set()
  processing_thread,     \* self.processing_thread
  thread_pc,             \* where each thread is in commentary_loop
  since_commentary,      \* ticks since each thread's last_commentary_time
  current_game_data,     \* self.current_game_data
  sio_sent,              \* the event of the last self.sio.emit
  handler_pc             \* where the Socket.IO handler thread is

bvars == << commentary_active, session_id, ocr_processor, commentary_generator,
            stop_event, processing_thread, thread_pc, since_commentary,
            current_game_data, sio_sent, handler_pc >>

VARIABLES
  c_pc,                  \* classifier run: record (a record waits) or done
  c_region,              \* the classifier the record was handed to
  c_record,              \* the detection record: text, conf, timestamp
  c_events,              \* the events the classifier returned
  c_score                \* the score_info analyze_scoreboard returned

cvars == << c_pc, c_region, c_record, c_events, c_score >>

VARIABLES
  a_pc,                  \* position in process_video: analyze, extract, detect,
                         \* commentary, existing, backup, save, done, failed
  a_fps,                 \* self.fps
  a_total_frames,        \* self.total_frames
  a_frame_count,         \* frame_count of extract_frames_for_analysis
  processed_frames,      \* self.processed_frames
  model_exists,          \* os.path.exists("best.pt")
  buyphase,              \* what `from buyphase import YOLOProcessor` and the
                         \* constructor do: ok, ImportError, error
  buycommentary,         \* what `from buycommentary import ...` does: ok, ImportError
  detections_file,       \* buy_phase_detections.json
  mock_detections_file,  \* mock_buy_phase_detections.json
  a_detections,          \* detections loaded by generate_ai_commentary
  a_det_i,               \* index of the detection the commentary loop is at
  a_segments,            \* self.commentary_segments
  a_saved                \* the complete results files written

avars == << a_pc, a_fps, a_total_frames, a_frame_count, processed_frames,
            model_exists, buyphase, buycommentary, detections_file,
            mock_detections_file, a_detections, a_det_i, a_segments, a_saved >>

\* number of templates of the bank random.choice draws from
TemplateCount(bank) ==
  CASE bank \in {"elimination", "headshot", "spike_plant", "spike_defuse",
                 "ability_used", "round_start", "economic_context"} -> 5
    [] bank = "general" -> 8
    [] OTHER -> 3

\* The random module is never seeded by the program: its generator starts in
\* a state the program does not choose (Init draws it from 0..MaxSeed) and
\* every call advances it.  random.choice(bank) with the generator in state r:
RandomChoice(bank, r) == r % TemplateCount(bank)

\* the generator's state after n calls
Advance(r, n) == (r + n) % (MaxSeed + 1)

\* commentary text: the template drawn, and the " Position: ..." suffix
Text(bank, idx, position) == [bank |-> bank, idx |-> idx, position |-> position]

\* the segment _generate_event_commentary appends; audio_file "absent": no key yet
_generate_event_commentary(event, draw) ==
  [timestamp |-> event.timestamp,
   text |-> Text(event.event_type, draw, event.location),
   event_type |-> event.event_type,
   importance |-> event.importance,
   style |-> IF event.importance >= 4 THEN "excitement" ELSE "play_by_play",
   audio_file |-> "absent"]

\* frame_count / fps, in ticks
Timestamp(fc, rate) == (TicksPerSecond * fc) \div rate

\* int(fps * 0.5)
frame_skip == fps \div 2

\* events_this_frame of one loop iteration, in the order the code appends them
events_this_frame(f, timestamp) ==
  LET current_phase == FrameReading[f].current_phase
      score_info == FrameReading[f].score_info
  IN  (IF current_phase /= last_round_phase
          /\ current_phase = "ACTION_PHASE" /\ last_round_phase /= "ACTION_PHASE"
       THEN << GameplayEvent(timestamp, "round_start",
                 Description("Round action phase begins", NoText, 0, 0, 0),
                 3, << >>, "None") >>
       ELSE << >>)
      \o (IF score_info.round /= last_score_info.round
          THEN << GameplayEvent(timestamp, "economic_context",
                    Description("Round", NoText, score_info.round,
                                score_info.team1_score, score_info.team2_score),
                    2, << >>, "None") >>
          ELSE << >>)
      \o StampAll(FrameReading[f].kill_events, timestamp)
      \o StampAll(FrameReading[f].ability_events, timestamp)
      \o StampAll(FrameReading[f].tactical_events, timestamp)

\* the state main() starts the analysis in, for a recording of n frames at
\* rate r, with the voice import succeeding or not and the generator in state g
EnhancedStart(r, n, voice, g) ==
  /\ e_pc = "analyze"
  /\ fps = r
  /\ total_frames = n
  /\ frame_count = 0
  /\ last_round_phase = "ACTION_PHASE"
  /\ last_score_info = DefaultScoreInfo
  /\ events_detected = << >>
  /\ commentary_segments = << >>
  /\ current_time = 0
  /\ VOICE_ENABLED = voice
  /\ synth_i = 0
  /\ audio_files = << >>
  /\ saved_results = << >>
  /\ eventful = 0
  /\ rng = g

InitEnhanced ==
  \E r \in FpsChoices, n \in FrameCounts, voice \in BOOLEAN, g \in 0..MaxSeed :
    EnhancedStart(r, n, voice, g)

\* one iteration of the while loop of analyze_gameplay_video, on frame f
AnalyzeFrameWith(f) ==
  /\ e_pc = "analyze"
  /\ frame_count < total_frames
  /\   /\ f = BlankFrame \/ eventful < EventBudget(total_frames)
       /\ eventful' = IF f = BlankFrame THEN eventful ELSE eventful + 1
       /\ LET timestamp == Timestamp(frame_count, fps)
              evs == events_this_frame(f, timestamp)
              commented == SelectSeq(evs, LAMBDA e : e.importance >= CommentImportance)
              score_info == FrameReading[f].score_info
          IN  /\ last_round_phase' = FrameReading[f].current_phase
              /\ last_score_info' =
                   IF score_info.round /= last_score_info.round
                   THEN score_info ELSE last_score_info
              /\ events_detected' = events_detected \o evs
              /\ commentary_segments' = commentary_segments \o
                   [i \in 1..Len(commented) |->
                      _generate_event_commentary(commented[i],
                        RandomChoice(commented[i].event_type, Advance(rng, i - 1)))]
              /\ rng' = Advance(rng, Len(commented))
  /\ frame_count' = frame_count + frame_skip
  \* frame_count % (frame_skip * 20) raises ZeroDivisionError when frame_skip = 0
  /\ e_pc' = IF frame_skip = 0 THEN "crashed" ELSE "analyze"
  /\ UNCHANGED << fps, total_frames, current_time, VOICE_ENABLED, synth_i,
                  audio_files, saved_results >>
  /\ UNCHANGED << vvars, bvars, cvars, avars >>

\* the loop reads whatever frame the recording holds at frame_count
AnalyzeFrame == \E f \in FrameInputs : AnalyzeFrameWith(f)

\* the loop ends; _add_general_commentary(duration) starts
AnalyzeDone ==
  /\ e_pc = "analyze"
  /\ frame_count >= total_frames
  /\ e_pc' = "fill"
  /\ current_time' = 0
  /\ UNCHANGED << fps, total_frames, frame_count, last_round_phase,
                  last_score_info, events_detected, commentary_segments,
                  VOICE_ENABLED, synth_i, audio_files, saved_results, eventful, rng >>
  /\ UNCHANGED << vvars, bvars, cvars, avars >>

Abs(x) == IF x < 0 THEN -x ELSE x

\* a slip: only the segment appended last is looked at
has_nearby_commentary_LastOnly(segments, t) ==
  /\ segments /= << >>
  /\ Abs(segments[Len(segments)].timestamp - t) < FillProximity

has_nearby_commentary(segments, t) ==
  \E i \in 1..Len(segments) : Abs(segments[i].timestamp - t) < FillProximity

\* current_time < duration, with duration = total_frames / fps seconds
BeforeEnd(t) == t * fps < TicksPerSecond * total_frames

GeneralSegment(t, draw) ==
  [timestamp |-> t, text |-> Text("general", draw, "None"),
   event_type |-> "general", importance |-> 2, style |-> "analysis",
   audio_file |-> "absent"]

\* one iteration of the while loop of _add_general_commentary
FillStep ==
  /\ e_pc = "fill"
  /\ BeforeEnd(current_time)
  /\ IF ~has_nearby_commentary(commentary_segments, current_time)
     THEN /\ commentary_segments' =
               Append(commentary_segments,
                      GeneralSegment(current_time, RandomChoice("general", rng)))
          /\ rng' = Advance(rng, 1)
     ELSE UNCHANGED << commentary_segments, rng >>
  /\ current_time' = current_time + FillInterval
  /\ UNCHANGED << e_pc, fps, total_frames, frame_count, last_round_phase,
                  last_score_info, events_detected, VOICE_ENABLED, synth_i,
                  audio_files, saved_results, eventful >>
  /\ UNCHANGED << vvars, bvars, cvars, avars >>

\* list.sort(key=timestamp): stable insertion of x into a sorted list
RECURSIVE InsertSorted(_, _)
InsertSorted(sorted, x) ==
  IF sorted = << >> THEN << x >>
  ELSE IF sorted[Len(sorted)].timestamp <= x.timestamp THEN Append(sorted, x)
  ELSE Append(InsertSorted(SubSeq(sorted, 1, Len(sorted) - 1), x),
              sorted[Len(sorted)])

RECURSIVE SortByTimestamp(_)
SortByTimestamp(segments) ==
  IF segments = << >> THEN << >>
  ELSE InsertSorted(SortByTimestamp(SubSeq(segments, 1, Len(segments) - 1)),
                    segments[Len(segments)])

\* a slip: the list is left in append order
sort_commentary_NoSort(segments) == segments

\* self.commentary_segments.sort(key=lambda x: x['timestamp'])
sort_commentary(segments) == SortByTimestamp(segments)

\* _add_general_commentary returns; main() calls generate_voice_commentary,
\* which returns at once without VOICE_ENABLED and otherwise sorts the list
GenerateVoiceEntry ==
  /\ e_pc = "fill"
  /\ ~BeforeEnd(current_time)
  /\ IF ~VOICE_ENABLED
     THEN /\ e_pc' = "done"
          /\ UNCHANGED << commentary_segments, synth_i >>
     ELSE /\ e_pc' = "synth"
          /\ commentary_segments' = sort_commentary(commentary_segments)
          /\ synth_i' = 1
  /\ UNCHANGED << fps, total_frames, frame_count, last_round_phase,
                  last_score_info, events_detected, current_time, VOICE_ENABLED,
                  audio_files, saved_results, eventful, rng >>
  /\ UNCHANGED << vvars, bvars, cvars, avars >>

\* f"gameplay_{timestamp:.2f}s.mp3"
AudioPath(timestamp) == << "gameplay", timestamp >>

\* a slip: the except branch drops the segment that failed
synthesize_segment_DropFailed(segments, i, ok) ==
  IF ok
  THEN [segments EXCEPT ![i].audio_file = AudioPath(segments[i].timestamp)]
  ELSE SubSeq(segments, 1, i - 1) \o SubSeq(segments, i + 1, Len(segments))

\* the body of the for loop: on success the segment gets its audio_file, on
\* an exception the except branch only prints and the segment is left alone
synthesize_segment(segments, i, ok) ==
  IF ok
  THEN [segments EXCEPT ![i].audio_file = AudioPath(segments[i].timestamp)]
  ELSE segments

\* synthesis calls of this pass that have failed
SynthFailures == (synth_i - 1) - Len(audio_files)

\* one iteration of the for loop of generate_voice_commentary
SynthStep ==
  /\ e_pc = "synth"
  /\ synth_i <= Len(commentary_segments)
  /\ \E ok \in BOOLEAN :
       /\ ok \/ SynthFailures < MaxSynthFailures
       /\ commentary_segments' = synthesize_segment(commentary_segments, synth_i, ok)
       /\ audio_files' =
            IF ok
            THEN Append(audio_files, AudioPath(commentary_segments[synth_i].timestamp))
            ELSE audio_files
  /\ synth_i' = synth_i + 1
  /\ UNCHANGED << e_pc, fps, total_frames, frame_count, last_round_phase,
                  last_score_info, events_detected, current_time, VOICE_ENABLED,
                  saved_results, eventful, rng >>
  /\ UNCHANGED << vvars, bvars, cvars, avars >>

\* what _save_results writes
_save_results ==
  [events_detected |-> events_detected,
   commentary_segments |-> commentary_segments]

\* the for loop ends; _create_html_player and _save_results run
SaveResults ==
  /\ e_pc = "synth"
  /\ synth_i > Len(commentary_segments)
  /\ saved_results' = Append(saved_results, _save_results)
  /\ e_pc' = "done"
  /\ UNCHANGED << fps, total_frames, frame_count, last_round_phase,
                  last_score_info, events_detected, commentary_segments,
                  current_time, VOICE_ENABLED, synth_i, audio_files, eventful, rng >>
  /\ UNCHANGED << vvars, bvars, cvars, avars >>

NextEnhanced ==
  \/ AnalyzeFrame
  \/ AnalyzeDone
  \/ FillStep
  \/ GenerateVoiceEntry
  \/ SynthStep
  \/ SaveResults

(***************************************************************************)
(* VideoCommentaryGenerator (video_commentary_generator.py)                *)
(***************************************************************************)
\* the weapons dict of _classify_text_to_event, in declaration order
weapon_variants ==
  << [weapon |-> "vandal",
      variants |-> << <<"v","a","n","d","a","l">>, <<"v","a","n","d","l">>, <<"v","a","n","d","a">> >>],
     [weapon |-> "phantom",
      variants |-> << <<"p","h","a","n","t","o","m">>, <<"f","a","n","t","o","m">>, <<"p","h","a","n","t">> >>],
     [weapon |-> "operator",
      variants |-> << <<"o","p","e","r","a","t","o","r">>, <<"o","p">>, <<"o","p","e","r","t","r">> >>],
     [weapon |-> "ghost",
      variants |-> << <<"g","h","o","s","t">>, <<"g","o","s","t">>, <<"g","h","s","t">> >>],
     [weapon |-> "sheriff",
      variants |-> << <<"s","h","e","r","i","f","f">>, <<"s","h","e","r","i","f">> >>],
     [weapon |-> "classic",
      variants |-> << <<"c","l","a","s","s","i","c">>, <<"c","l","a","s","i","c">> >>],
     [weapon |-> "spectre",
      variants |-> << <<"s","p","e","c","t","r","e">>, <<"s","p","e","c","t","e","r">> >>],
     [weapon |-> "judge",
      variants |-> << <<"j","u","d","g","e">>, <<"j","u","g","e">> >>],
     [weapon |-> "odin",
      variants |-> << <<"o","d","i","n">>, <<"o","d","n">> >>],
     [weapon |-> "ares",
      variants |-> << <<"a","r","e","s">>, <<"a","r","e">> >>] >>

requesting_patterns == << <<"r","e","q","u","e","s","t","i","n","g">>, <<"r","e","q","u","e","s","t">>, <<"r","e","q">> >>
owned_patterns == << <<"o","w","n","e","d">>, <<"o","w","n","d">>, <<"o","w","n">>, <<"e","q","u","i","p","p","e","d">>, <<"o","m","n","e","d">> >>
shield_patterns == << <<"s","h","i","e","l","d">>, <<"a","r","m","o","r">>, <<"s","h","i","e","l","d","s">> >>
shield_owned_patterns == << <<"o","w","n","e","d">>, <<"e","q","u","i","p","p","e","d">>, <<"o","m","n","e","d">> >>

\* any(p in text for p in patterns)
AnyIn(patterns, text) == \E i \in 1..Len(patterns) : Contains(patterns[i], text)

\* str.strip(): leading and trailing blanks removed
RECURSIVE Strip(_)
Strip(text) ==
  IF text = << >> THEN text
  ELSE IF Head(text) = " " THEN Strip(Tail(text))
  ELSE IF text[Len(text)] = " " THEN Strip(SubSeq(text, 1, Len(text) - 1))
  ELSE text

\* indices of the weapons one of whose variants is in the text
MatchedWeapons(text) ==
  { w \in 1..Len(weapon_variants) : AnyIn(weapon_variants[w].variants, text) }

\* the loop over weapons.items() keeping the last weapon that matches
FirstWeapon_LastMatch(text) ==
  weapon_variants[CHOOSE w \in MatchedWeapons(text) :
                    \A v \in MatchedWeapons(text) : w >= v].weapon

\* for weapon, variants in weapons.items(): the first weapon that matches
FirstWeapon(text) ==
  weapon_variants[CHOOSE w \in MatchedWeapons(text) :
                    \A v \in MatchedWeapons(text) : w <= v].weapon

\* Event(timestamp, event_type, player, weapon) of buycommentary
Event(timestamp, event_type, player, weapon) ==
  [timestamp |-> timestamp, event_type |-> event_type, player |-> player,
   weapon |-> weapon]

\* Optional[Event] as a sequence of at most one event
_classify_text_to_event(raw, timestamp) ==
  LET text == Strip(Lower(raw))
  IN  IF AnyIn(requesting_patterns, text) /\ MatchedWeapons(text) /= {}
      THEN << Event(timestamp, "requesting_weapon", "Player", FirstWeapon(text)) >>
      ELSE IF AnyIn(owned_patterns, text) /\ MatchedWeapons(text) /= {}
      THEN << Event(timestamp, "weapon_owned", "Player", FirstWeapon(text)) >>
      ELSE IF AnyIn(shield_patterns, text) /\ AnyIn(shield_owned_patterns, text)
      THEN << Event(timestamp, "shield_owned", "Player", "shields") >>
      ELSE << >>

\* the loop of _extract_events_from_ocr over ocr_results['results']
RECURSIVE _extract_events_from_ocr(_, _)
_extract_events_from_ocr(results, timestamp) ==
  IF results = << >> THEN << >>
  ELSE (IF Strip(Lower(Head(results))) = << >>
        THEN << >>
        ELSE _classify_text_to_event(Strip(Lower(Head(results))), timestamp))
       \o _extract_events_from_ocr(Tail(results), timestamp)

\* what OCR reads in the regions YOLO predicts in one frame: a list of texts
VideoFrameInputs ==
  { << >>,
    << <<"R","E","Q","U","E","S","T","I","N","G"," ","V","A","N","D","A","L">> >>,
    << <<"O","w","n","e","d"," ","P","h","a","n","t","o","m">> >>,
    << <<"s","h","i","e","l","d"," ","e","q","u","i","p","p","e","d">> >>,
    << <<"v","a","n","d","a","l"," ","g","h","o","s","t"," ","o","w","n","e","d">> >>,
    << <<" ","r","e","q"," ","o","p"," ">>, <<"O","w","n","e","d"," ","P","h","a","n","t","o","m">> >>,
    << <<"h","e","l","l","o">> >>,
    << << >> >> }

\* the events of each sample frame, computed once and stamped 0 (see StampAll)
VideoReading ==
  [texts \in VideoFrameInputs |-> _extract_events_from_ocr(texts, 0)]

\* how far _initialize_processors got before an exception: nothing, the YOLO
\* processor, YOLO and OCR, or all three (the commentator is the last)
ProcessorStates == {"none", "yolo", "ocr", "all"}

\* frame rates and --interval values of the runs
VideoFpsChoices == {1, 2}
FrameIntervals == {1, 2}

\* the frame numbers with frame_count % frame_interval == 0, in order
RECURSIVE ExtractedFrames(_, _, _)
ExtractedFrames(fc, total, interval) ==
  IF fc >= total THEN << >>
  ELSE (IF fc % interval = 0 THEN << fc >> ELSE << >>)
       \o ExtractedFrames(fc + 1, total, interval)

\* __init__ and extract_frames_from_video for a recording of n frames
VideoStart(p, r, interval, n) ==
  /\ v_pc = "process"
  /\ processors = p
  /\ v_fps = r
  /\ v_frame_interval = interval
  /\ v_frames = ExtractedFrames(0, n, interval)
  /\ v_i = 1
  /\ last_commentary_time = 0
  /\ all_commentary = << >>
  /\ frame_analysis = << >>
  /\ v_saved = << >>
  /\ v_eventful = 0

InitVideo ==
  \E p \in ProcessorStates, r \in VideoFpsChoices, interval \in FrameIntervals :
    VideoStart(p, r, interval, VideoFrames)

\* frame_result['ocr_results']: the texts of _process_ocr_on_detections, nothing
\* when there are no predictions or no OCR processor
ocr_results(texts) ==
  IF processors \in {"ocr", "all"} THEN texts ELSE << >>

\* process_frame extracting no events while the rate limit is on
process_frame_events_Throttled(texts, timestamp) ==
  IF processors \in {"ocr", "all"} /\ texts /= << >>
     /\ ~(timestamp - last_commentary_time < MinInterval)
  THEN StampAll(VideoReading[texts], timestamp)
  ELSE << >>

\* process_frame: the events of the frame, given what the regions read
process_frame_events(texts, timestamp) ==
  IF processors \in {"ocr", "all"} /\ texts /= << >>
  THEN StampAll(VideoReading[texts], timestamp)
  ELSE << >>

\* timestamp - self.last_commentary_time < self.commentary_interval
rate_limited(timestamp) == timestamp - last_commentary_time < MinInterval

\* commentary.text of the commentator's answer for an event
CommentaryText(event) ==
  [event_type |-> event.event_type, player |-> event.player, weapon |-> event.weapon]

\* generate_commentary_for_events as Optional[str]; generated: the commentator
\* returned a commentary (it may return none, or raise, which is caught)
generate_commentary_for_events(events, timestamp, generated) ==
  IF events = << >> \/ processors /= "all" THEN << >>
  ELSE IF rate_limited(timestamp) THEN << >>
  ELSE IF generated THEN << CommentaryText(events[1]) >>
  ELSE << >>

\* one iteration of the for loop of process_video
ProcessFrame ==
  /\ v_pc = "process"
  /\ v_i <= Len(v_frames)
  /\ \E texts \in VideoFrameInputs, generated \in BOOLEAN :
       /\ texts = << >> \/ v_eventful < MaxEventful
       /\ v_eventful' = IF texts = << >> THEN v_eventful ELSE v_eventful + 1
       /\ LET timestamp == Timestamp(v_frames[v_i], v_fps)
              events == process_frame_events(texts, timestamp)
              commentary ==
                IF events /= << >>
                THEN generate_commentary_for_events(events, timestamp, generated)
                ELSE << >>
          IN  /\ generated \/ commentary = << >>
              /\ last_commentary_time' =
                   IF commentary /= << >> THEN timestamp ELSE last_commentary_time
              /\ all_commentary' =
                   IF commentary /= << >>
                   THEN Append(all_commentary,
                               [timestamp |-> timestamp, text |-> commentary[1],
                                events |-> events])
                   ELSE all_commentary
              /\ frame_analysis' =
                   Append(frame_analysis,
                          [timestamp |-> timestamp,
                           buy_phase_detected |-> (processors /= "none" /\ texts /= << >>),
                           events |-> events,
                           ocr_results |-> ocr_results(texts),
                           commentary |-> commentary])
  /\ v_i' = v_i + 1
  /\ UNCHANGED << v_pc, processors, v_fps, v_frame_interval, v_frames, v_saved >>
  /\ UNCHANGED << evars, bvars, cvars, avars >>

\* what _save_results writes: the commentary file and the analysis file
video_save_results ==
  [commentary |-> all_commentary, frame_analysis |-> frame_analysis]

\* the loop ends and _save_results runs
VideoSave ==
  /\ v_pc = "process"
  /\ v_i > Len(v_frames)
  /\ v_saved' = Append(v_saved, video_save_results)
  /\ v_pc' = "done"
  /\ UNCHANGED << processors, v_fps, v_frame_interval, v_frames, v_i,
                  last_commentary_time, all_commentary, frame_analysis,
                  v_eventful >>
  /\ UNCHANGED << evars, bvars, cvars, avars >>

NextVideo ==
  \/ ProcessFrame
  \/ VideoSave

(***************************************************************************)
(* WebCommentaryBridge (website/bridge/commentary_bridge.py)               *)
(***************************************************************************)
\* slots for threading.Thread objects; a slot is free before its thread is
\* started and after its commentary_loop has returned
Workers == 1..MaxWorkers

\* processing_thread = None
NoThread == 0

\* session_data.get('sessionId'): missing ("None") or an identifier
SessionIds == {"None", "s1"}

\* game_settings.get('map')
Maps == {"None", "ascent"}

\* how initialize_processors ends: all four built, the OCR processor failed,
\* or the commentary generator failed after the OCR processor was stored
InitOutcomes == {"ok", "ocr_failed", "generator_failed"}

\* the keys of the dict process_ocr returns ({} when OCR fails)
OcrSamples ==
  { {}, {"buy_phase"}, {"round_start"}, {"round_end"},
    {"buy_phase", "round_end"}, {"score"} }

\* current_time - last_commentary_time, in ticks, kept up to the first value
\* that passes the interval check
Elapsed == MinInterval + 1

\* self.current_game_data after __init__ (map, phase and score of it)
InitialGameData == [map |-> "None", phase |-> "None", score |-> "None"]

\* __init__ of WebCommentaryBridge
BridgeStart ==
  /\ commentary_active = FALSE
  /\ session_id = "None"
  /\ ocr_processor = FALSE
  /\ commentary_generator = FALSE
  /\ stop_event = FALSE
  /\ processing_thread = NoThread
  /\ thread_pc = [t \in Workers |-> "free"]
  /\ since_commentary = [t \in Workers |-> 0]
  /\ current_game_data = InitialGameData
  /\ sio_sent = "none"
  /\ handler_pc = "idle"

\* threading.Thread.is_alive()
is_alive(t) == t /= NoThread /\ thread_pc[t] /= "free"

AliveWorkers == { t \in Workers : thread_pc[t] /= "free" }

\* the slot a new thread takes
FreeSlot == CHOOSE t \in Workers : thread_pc[t] = "free" /\
                                   \A u \in Workers : thread_pc[u] = "free" => t <= u

\* if self.commentary_active: return, else a new Thread is started
start_thread(active) == ~active

\* on_start_commentary and start_commentary_session
start_commentary_session ==
  /\ handler_pc = "idle"
  /\ \E sessionId \in SessionIds, map \in Maps, outcome \in InitOutcomes :
       IF ~start_thread(commentary_active)
       THEN UNCHANGED bvars
       ELSE /\ session_id' = sessionId
            /\ current_game_data' = [current_game_data EXCEPT !.map = map]
            /\ IF ~ocr_processor /\ outcome /= "ok"
               THEN /\ ocr_processor' = (outcome = "generator_failed")
                    /\ sio_sent' = "error"
                    /\ UNCHANGED << commentary_active, commentary_generator,
                                    stop_event, processing_thread, thread_pc,
                                    since_commentary >>
               ELSE /\ AliveWorkers /= Workers
                    /\ ocr_processor' = TRUE
                    /\ commentary_generator' =
                         IF ocr_processor THEN commentary_generator ELSE TRUE
                    /\ commentary_active' = TRUE
                    /\ stop_event' = FALSE
                    /\ processing_thread' = FreeSlot
                    /\ thread_pc' = [thread_pc EXCEPT ![FreeSlot] = "head"]
                    /\ since_commentary' =
                         [since_commentary EXCEPT ![FreeSlot] = Elapsed]
                    /\ sio_sent' = "commentary-started"
  /\ UNCHANGED << handler_pc, evars, vvars, cvars, avars >>

\* on_stop_commentary: the handler is called
on_stop_commentary ==
  /\ handler_pc = "idle"
  /\ handler_pc' = "stop"
  /\ UNCHANGED << commentary_active, session_id, ocr_processor,
                  commentary_generator, stop_event, processing_thread,
                  thread_pc, since_commentary, current_game_data, sio_sent,
                  evars, vvars, cvars, avars >>

\* stop_commentary_session up to the join
stop_commentary_session ==
  /\ handler_pc = "stop"
  /\ IF ~commentary_active
     THEN /\ handler_pc' = "idle"
          /\ UNCHANGED << commentary_active, stop_event, session_id, sio_sent >>
     ELSE /\ commentary_active' = FALSE
          /\ stop_event' = TRUE
          /\ IF is_alive(processing_thread)
             THEN /\ handler_pc' = "join"
                  /\ UNCHANGED << session_id, sio_sent >>
             ELSE /\ handler_pc' = "idle"
                  /\ sio_sent' = "commentary-stopped"
                  /\ session_id' = "None"
  /\ UNCHANGED << ocr_processor, commentary_generator, processing_thread,
                  thread_pc, since_commentary, current_game_data, evars, vvars, cvars, avars >>

\* join(timeout=5) returns, because the thread ended or the five seconds
\* passed, and the rest of stop_commentary_session runs
stop_join ==
  /\ handler_pc = "join"
  /\ \E timed_out \in BOOLEAN : timed_out \/ ~is_alive(processing_thread)
  /\ sio_sent' = "commentary-stopped"
  /\ session_id' = "None"
  /\ handler_pc' = "idle"
  /\ UNCHANGED << commentary_active, ocr_processor, commentary_generator,
                  stop_event, processing_thread, thread_pc, since_commentary,
                  current_game_data, evars, vvars, cvars, avars >>

\* on_pause_commentary and pause_commentary
pause_commentary ==
  /\ handler_pc = "idle"
  /\ commentary_active' = IF commentary_active THEN FALSE ELSE commentary_active
  /\ UNCHANGED << session_id, ocr_processor, commentary_generator, stop_event,
                  processing_thread, thread_pc, since_commentary,
                  current_game_data, sio_sent, handler_pc, evars, vvars, cvars, avars >>

\* truth value of self.session_id
Truthy(id) == id /= "None"

\* self.commentary_active after resume_commentary
resumed(active, id) == IF ~active /\ Truthy(id) THEN TRUE ELSE active

\* on_resume_commentary and resume_commentary
resume_commentary ==
  /\ handler_pc = "idle"
  /\ commentary_active' = resumed(commentary_active, session_id)
  /\ UNCHANGED << session_id, ocr_processor, commentary_generator, stop_event,
                  processing_thread, thread_pc, since_commentary,
                  current_game_data, sio_sent, handler_pc, evars, vvars, cvars, avars >>

\* while not self.stop_event.is_set()
loop_head(t) ==
  /\ thread_pc[t] = "head"
  /\ IF stop_event
     THEN /\ thread_pc' = [thread_pc EXCEPT ![t] = "free"]
          /\ since_commentary' = [since_commentary EXCEPT ![t] = 0]
     ELSE /\ thread_pc' = [thread_pc EXCEPT ![t] = "active?"]
          /\ UNCHANGED since_commentary
  /\ UNCHANGED << commentary_active, session_id, ocr_processor,
                  commentary_generator, stop_event, processing_thread,
                  current_game_data, sio_sent, handler_pc, evars, vvars, cvars, avars >>

\* if not self.commentary_active: sleep and continue
loop_check_active(t) ==
  /\ thread_pc[t] = "active?"
  /\ thread_pc' = [thread_pc EXCEPT ![t] =
                     IF commentary_active THEN "capture" ELSE "head"]
  /\ UNCHANGED << commentary_active, session_id, ocr_processor,
                  commentary_generator, stop_event, processing_thread,
                  since_commentary, current_game_data, sio_sent, handler_pc,
                  evars, vvars, cvars, avars >>

\* update_game_state on the phase, score left to the caller
update_phase(phase, ocr_data) ==
  IF "buy_phase" \in ocr_data THEN "buy"
  ELSE IF "round_start" \in ocr_data THEN "round"
  ELSE IF "round_end" \in ocr_data THEN "end"
  ELSE phase

\* update_game_state
update_game_state(game_data, ocr_data) ==
  [game_data EXCEPT
     !.phase = update_phase(game_data.phase, ocr_data),
     !.score = IF "score" \in ocr_data THEN "1-0" ELSE game_data.score]

\* current_time - last_commentary_time > commentary_interval
interval_passed(t) == since_commentary[t] > MinInterval

\* capture, OCR, update_game_state and the commentary of one iteration
loop_iteration(t) ==
  /\ thread_pc[t] = "capture"
  /\ \E captured \in BOOLEAN, ocr_data \in OcrSamples, generated \in BOOLEAN :
       IF ~captured
       THEN /\ ocr_data = {} /\ ~generated
            /\ thread_pc' = [thread_pc EXCEPT ![t] = "head"]
            /\ UNCHANGED << current_game_data, since_commentary, sio_sent >>
       ELSE /\ current_game_data' = update_game_state(current_game_data, ocr_data)
            /\ IF interval_passed(t) /\ commentary_generator /\ generated
               THEN /\ sio_sent' = "commentary"
                    /\ since_commentary' = [since_commentary EXCEPT ![t] = 0]
               ELSE /\ ~generated
                    /\ UNCHANGED << sio_sent, since_commentary >>
            /\ thread_pc' = [thread_pc EXCEPT ![t] = "update"]
  /\ UNCHANGED << commentary_active, session_id, ocr_processor,
                  commentary_generator, stop_event, processing_thread,
                  handler_pc, evars, vvars, cvars, avars >>

\* emit_game_update and the sleep that ends the iteration
loop_emit_game_update(t) ==
  /\ thread_pc[t] = "update"
  /\ sio_sent' = "game-update"
  /\ thread_pc' = [thread_pc EXCEPT ![t] = "head"]
  /\ UNCHANGED << commentary_active, session_id, ocr_processor,
                  commentary_generator, stop_event, processing_thread,
                  since_commentary, current_game_data, handler_pc, evars, vvars, cvars, avars >>

\* one step of the thread running commentary_loop
commentary_loop(t) ==
  \/ loop_head(t)
  \/ loop_check_active(t)
  \/ loop_iteration(t)
  \/ loop_emit_game_update(t)

\* half a second passes on time.time()
Tick ==
  /\ \E t \in AliveWorkers : since_commentary[t] < Elapsed
  /\ since_commentary' =
       [t \in Workers |->
          IF thread_pc[t] /= "free" /\ since_commentary[t] < Elapsed
          THEN since_commentary[t] + 1 ELSE since_commentary[t]]
  /\ UNCHANGED << commentary_active, session_id, ocr_processor,
                  commentary_generator, stop_event, processing_thread,
                  thread_pc, current_game_data, sio_sent, handler_pc,
                  evars, vvars, cvars, avars >>

NextBridge ==
  \/ start_commentary_session
  \/ on_stop_commentary
  \/ stop_commentary_session
  \/ stop_join
  \/ pause_commentary
  \/ resume_commentary
  \/ \E t \in Workers : commentary_loop(t)
  \/ Tick

(***************************************************************************)
(* The classifiers on one detection record                                 *)
(***************************************************************************)
\* the largest score a side of the scoreboard shows in the sampled records
MaxScore == 13

\* words OCR reads in the kill feed, the centre of the screen and the buy menu
DetectionWords ==
  { <<"R","E","Q","U","E","S","T","I","N","G">>,
    <<"r","e","q","u","e","s","t","i","n","g">>,
    <<"O","W","N","E","D">>,
    <<"O","w","n","e","d">>,
    <<"s","h","i","e","l","d">>,
    <<"v","a","n","d","a","l">>,
    <<"V","A","N","D","A","L">>,
    <<"g","h","o","s","t">>,
    <<"P","h","a","n","t","o","m">>,
    <<"h","e","a","d","s","h","o","t">>,
    <<"S","P","I","K","E">>,
    <<"D","E","F","U","S","I","N","G">>,
    <<"v","a","n","d","l">>,
    <<"h","e","l","l","o">> }

\* player names as _extract_player_from_text lists them, and in capitals
PlayerWords ==
  { <<"T","e","n","Z">>, <<"T","E","N","Z">> }

\* str(n) for a score of one or two digits
Digits(n) ==
  IF n < 10 THEN << DigitSeq[n + 1] >>
  ELSE << DigitSeq[(n \div 10) + 1], DigitSeq[(n % 10) + 1] >>

\* the scoreboard text "a-b"
ScoreText(a, b) == Digits(a) \o << "-" >> \o Digits(b)

ScoreTexts == { ScoreText(a, b) : a \in 0..MaxScore, b \in 0..MaxScore }

\* a status followed by two weapon names
StatusWords == { <<"R","E","Q","U","E","S","T","I","N","G">>, <<"O","w","n","e","d">> }
WeaponWords == { <<"v","a","n","d","a","l">>, <<"G","H","O","S","T">>, <<"P","h","a","n","t","o","m">>, <<"v","a","n","d","l">> }
WeaponPhrases ==
  { st \o << " " >> \o a \o << " " >> \o b :
      st \in StatusWords, a \in WeaponWords, b \in WeaponWords }

\* one or two words, with or without a player name after them, the weapon
\* phrases and the score texts
DetectionTexts ==
  LET phrases == DetectionWords
                   \cup { a \o << " " >> \o b : a \in DetectionWords, b \in DetectionWords }
  IN  phrases \cup PlayerWords
        \cup { t \o << " " >> \o p : t \in phrases, p \in PlayerWords }
        \cup WeaponPhrases
        \cup ScoreTexts

\* confidences below and above the thresholds 0.5, 0.6 and 0.7, in percent
ConfidenceChoices == {45, 65, 90}

\* frame timestamps in ticks: 0 s and 12 s
TimestampChoices == {0, 12 * TicksPerSecond}

ClassifierStart(text, conf, timestamp) ==
  /\ c_pc = "record"
  /\ c_region = "none"
  /\ c_record = [text |-> text, conf |-> conf, timestamp |-> timestamp]
  /\ c_events = << >>
  /\ c_score = DefaultScoreInfo

InitClassifier ==
  \E text \in DetectionTexts, conf \in ConfidenceChoices,
     timestamp \in TimestampChoices :
    ClassifierStart(text, conf, timestamp)

\* the record as reader.readtext returns it for a region
Readtext == << [text |-> c_record.text, conf |-> c_record.conf] >>

\* the record is read in the kill-feed region
ClassifyKillFeed ==
  /\ c_pc = "record"
  /\ c_pc' = "done"
  /\ c_region' = "kill_feed"
  /\ c_events' = detect_kill_feed_events(Readtext, c_record.timestamp)
  /\ UNCHANGED << c_record, c_score, evars, vvars, bvars, avars >>

\* the record is read in the centre of the screen
ClassifyCenter ==
  /\ c_pc = "record"
  /\ c_pc' = "done"
  /\ c_region' = "center"
  /\ c_events' = detect_tactical_events(Readtext, c_record.timestamp)
  /\ UNCHANGED << c_record, c_score, evars, vvars, bvars, avars >>

\* the record is read in the scoreboard region
ClassifyScoreboard ==
  /\ c_pc = "record"
  /\ c_pc' = "done"
  /\ c_region' = "scoreboard"
  /\ c_score' = analyze_scoreboard(Readtext)
  /\ UNCHANGED << c_record, c_events, evars, vvars, bvars, avars >>

\* the record is an OCR result of a buy-menu region (VideoCommentaryGenerator)
ClassifyBuyMenu ==
  /\ c_pc = "record"
  /\ c_pc' = "done"
  /\ c_region' = "buy_menu"
  /\ c_events' = _extract_events_from_ocr(<< c_record.text >>, c_record.timestamp)
  /\ UNCHANGED << c_record, c_score, evars, vvars, bvars, avars >>

\* AdvancedVideoCommentaryGenerator._extract_weapon_from_text: weapons
advanced_weapons ==
  << <<"V","a","n","d","a","l">>,
     <<"P","h","a","n","t","o","m">>,
     <<"O","p","e","r","a","t","o","r">>,
     <<"G","h","o","s","t">>,
     <<"S","h","e","r","i","f","f">>,
     <<"S","p","e","c","t","r","e">>,
     <<"J","u","d","g","e">> >>

\* AdvancedVideoCommentaryGenerator._extract_player_from_text: players
players ==
  << <<"T","e","n","Z">>,
     <<"S","c","r","e","a","M">>,
     <<"S","h","r","o","u","d">>,
     <<"P","l","a","y","e","r","1">>,
     <<"P","l","a","y","e","r","2">> >>

\* indices of the weapons of the list whose upper-cased name is in text.upper()
AdvancedWeaponsIn(text) ==
  { w \in 1..Len(advanced_weapons) :
      Contains(Upper(advanced_weapons[w]), Upper(text)) }

\* for weapon in weapons: the first one found is returned, else 'Unknown'
_extract_weapon_from_text(text) ==
  IF AdvancedWeaponsIn(text) = {} THEN <<"U","n","k","n","o","w","n">>
  ELSE advanced_weapons[CHOOSE w \in AdvancedWeaponsIn(text) :
                          \A v \in AdvancedWeaponsIn(text) : w <= v]

\* `player in text` compares the characters as they are
PlayersIn(text) == { i \in 1..Len(players) : Contains(players[i], text) }

\* for player in players: the first one found is returned, else 'Player'
_extract_player_from_text(text) ==
  IF PlayersIn(text) = {} THEN <<"P","l","a","y","e","r">>
  ELSE players[CHOOSE i \in PlayersIn(text) : \A j \in PlayersIn(text) : i <= j]

\* number of templates in each list of commentary_templates
BackupTemplates == 5

\* a segment of _generate_backup_commentary; its text is the chosen template
\* with player and weapon substituted
BackupSegment(timestamp, event_type, template, mock_text) ==
  [timestamp |-> timestamp,
   text |-> [template |-> template,
             player |-> _extract_player_from_text(mock_text),
             weapon |-> _extract_weapon_from_text(mock_text)],
   caster |-> "Hype",
   event_type |-> event_type,
   player |-> _extract_player_from_text(mock_text),
   weapon |-> _extract_weapon_from_text(mock_text)]

\* what _generate_backup_commentary appends for one detection when
\* random.choice returns the given template
_generate_backup_commentary(mock_text, timestamp, template) ==
  IF Contains(<<"R","E","Q","U","E","S","T","I","N","G">>, mock_text)
  THEN << BackupSegment(timestamp, "requesting_weapon", template, mock_text) >>
  ELSE IF Contains(<<"O","W","N","E","D">>, mock_text)
  THEN << BackupSegment(timestamp, "weapon_owned", template, mock_text) >>
  ELSE << >>

\* the record is the mock_ocr_text of a detection (AdvancedVideoCommentaryGenerator);
\* random.choice draws from the module's generator, which nothing seeds
ClassifyBackup ==
  /\ c_pc = "record"
  /\ c_pc' = "done"
  /\ c_region' = "backup"
  /\ \E template \in 1..BackupTemplates :
       c_events' = _generate_backup_commentary(c_record.text, c_record.timestamp,
                                               template)
  /\ UNCHANGED << c_record, c_score, evars, vvars, bvars, avars >>

NextClassifier ==
  \/ ClassifyKillFeed
  \/ ClassifyCenter
  \/ ClassifyScoreboard
  \/ ClassifyBuyMenu
  \/ ClassifyBackup


(***************************************************************************)
(* AdvancedVideoCommentaryGenerator (advanced_video_commentary.py)         *)
(***************************************************************************)
\* the longest recording the generator is run on, in frames
MaxAdvancedFrames == 7

\* _generate_mock_ocr_text: statuses
statuses == << <<"O","W","N","E","D">>, <<"R","E","Q","U","E","S","T","I","N","G">>, <<"E","Q","U","I","P","P","E","D">> >>

\* _generate_mock_ocr_text(index): f"{status} {weapon} {player}"
_generate_mock_ocr_text(index) ==
  statuses[(index % Len(statuses)) + 1] \o << " " >>
    \o advanced_weapons[(index % Len(advanced_weapons)) + 1] \o << " " >>
    \o players[(index % Len(players)) + 1]

\* the element _generate_mock_detections appends for the i-th extracted frame
\* (i counts from 0); confidence in percent
MockDetection(i, frame_info) ==
  [timestamp |-> frame_info.timestamp,
   detections |-> << [class |-> "event-box",
                      confidence |-> 85 + (i % 10),
                      bbox |-> << 100, 100, 200, 150 >>,
                      mock_ocr_text |-> _generate_mock_ocr_text(i)] >>]

\* _generate_mock_detections: every third extracted frame gets a detection
RECURSIVE MockFrom(_, _)
MockFrom(i, frames) ==
  IF i >= Len(frames) THEN << >>
  ELSE (IF i % 3 = 0 THEN << MockDetection(i, frames[i + 1]) >> ELSE << >>)
       \o MockFrom(i + 1, frames)

_generate_mock_detections(frames) == MockFrom(0, frames)

\* a prediction of the YOLO processor: a class and a box, as
\* _process_ocr_on_detections of VideoCommentaryGenerator reads them
RealPrediction ==
  [class |-> "event-box", confidence |-> 90, bbox |-> << 100, 100, 200, 150 >>]

\* the detections of the real backend when the frames in hit have predictions
RECURSIVE RealFrom(_, _, _)
RealFrom(i, frames, hit) ==
  IF i > Len(frames) THEN << >>
  ELSE (IF i \in hit
        THEN << [timestamp |-> frames[i].timestamp,
                 detections |-> << RealPrediction >>] >>
        ELSE << >>)
       \o RealFrom(i + 1, frames, hit)

\* run_buy_phase_detection without the `except ImportError` clause
detection_backend_NoFallback(exists, import) ==
  IF ~exists THEN "mock"
  ELSE IF import = "ok" THEN "real"
  ELSE "none"

\* which backend run_buy_phase_detection ends up with: the mock one when the
\* model file is missing or the import fails, none when the processor raises
\* anything else
detection_backend(exists, import) ==
  IF ~exists THEN "mock"
  ELSE IF import = "ImportError" THEN "mock"
  ELSE IF import = "ok" THEN "real"
  ELSE "none"

NoFile == [exists |-> FALSE, detections |-> << >>]
File(detections) == [exists |-> TRUE, detections |-> detections]

AdvancedStart(r, n, exists, import, commentator) ==
  /\ a_pc = "analyze"
  /\ a_fps = r
  /\ a_total_frames = n
  /\ a_frame_count = 0
  /\ processed_frames = << >>
  /\ model_exists = exists
  /\ buyphase = import
  /\ buycommentary = commentator
  /\ detections_file = NoFile
  /\ mock_detections_file = NoFile
  /\ a_detections = << >>
  /\ a_det_i = 1
  /\ a_segments = << >>
  /\ a_saved = << >>

InitAdvanced ==
  \E r \in FpsChoices, n \in 0..MaxAdvancedFrames, exists \in BOOLEAN,
     import \in {"ok", "ImportError", "error"},
     commentator \in {"ok", "ImportError"} :
    AdvancedStart(r, n, exists, import, commentator)

\* analyze_video_properties: fps and total_frames are read from the file
analyze_video_properties ==
  /\ a_pc = "analyze"
  /\ a_pc' = "extract"
  /\ UNCHANGED << a_fps, a_total_frames, a_frame_count, processed_frames,
                  model_exists, buyphase, buycommentary, detections_file,
                  mock_detections_file, a_detections, a_det_i, a_segments,
                  a_saved >>
  /\ UNCHANGED << evars, vvars, bvars, cvars >>

\* int(self.fps * interval_seconds) with interval_seconds = 1.0
a_frame_interval == a_fps

\* one iteration of the while loop of extract_frames_for_analysis
extract_frame ==
  /\ a_pc = "extract"
  /\ a_frame_count < a_total_frames
  /\ processed_frames' =
       IF a_frame_count % a_frame_interval = 0
       THEN Append(processed_frames,
                   [timestamp |-> Timestamp(a_frame_count, a_fps),
                    frame_number |-> a_frame_count,
                    extracted_index |-> Len(processed_frames)])
       ELSE processed_frames
  /\ a_frame_count' = a_frame_count + 1
  /\ UNCHANGED << a_pc, a_fps, a_total_frames, model_exists, buyphase,
                  buycommentary, detections_file, mock_detections_file,
                  a_detections, a_det_i, a_segments, a_saved >>
  /\ UNCHANGED << evars, vvars, bvars, cvars >>

\* cap.read() returns ret = False: the loop ends
extract_done ==
  /\ a_pc = "extract"
  /\ a_frame_count >= a_total_frames
  /\ a_pc' = "detect"
  /\ UNCHANGED << a_fps, a_total_frames, a_frame_count, processed_frames,
                  model_exists, buyphase, buycommentary, detections_file,
                  mock_detections_file, a_detections, a_det_i, a_segments,
                  a_saved >>
  /\ UNCHANGED << evars, vvars, bvars, cvars >>

\* run_buy_phase_detection; hit: the frames the processor finds predictions in
run_buy_phase_detection ==
  /\ a_pc = "detect"
  /\ LET backend == detection_backend(model_exists, buyphase)
     IN  \/ /\ backend = "mock"
            /\ mock_detections_file' = File(_generate_mock_detections(processed_frames))
            /\ a_pc' = "commentary"
            /\ UNCHANGED detections_file
         \/ /\ backend = "real"
            /\ \E hit \in SUBSET (1..Len(processed_frames)) :
                 detections_file' = File(RealFrom(1, processed_frames, hit))
            /\ a_pc' = "commentary"
            /\ UNCHANGED mock_detections_file
         \/ /\ backend = "none"
            /\ a_pc' = "failed"
            /\ UNCHANGED << detections_file, mock_detections_file >>
  /\ UNCHANGED << a_fps, a_total_frames, a_frame_count, processed_frames,
                  model_exists, buyphase, buycommentary, a_detections, a_det_i,
                  a_segments, a_saved >>
  /\ UNCHANGED << evars, vvars, bvars, cvars >>

\* the detections generate_ai_commentary loads: the real file if it exists,
\* else the mock file
loaded_detections ==
  IF detections_file.exists THEN detections_file.detections
  ELSE IF mock_detections_file.exists THEN mock_detections_file.detections
  ELSE << >>

\* generate_ai_commentary up to the choice of the commentary system
generate_ai_commentary ==
  /\ a_pc = "commentary"
  /\ a_detections' = loaded_detections
  /\ a_det_i' = 1
  /\ a_pc' = IF loaded_detections = << >> THEN "save"
             ELSE IF buycommentary = "ok" THEN "existing"
             ELSE "backup"
  /\ UNCHANGED << a_fps, a_total_frames, a_frame_count, processed_frames,
                  model_exists, buyphase, buycommentary, detections_file,
                  mock_detections_file, a_segments, a_saved >>
  /\ UNCHANGED << evars, vvars, bvars, cvars >>

\* det.get('mock_ocr_text', '')
mock_text_of(det) ==
  IF "mock_ocr_text" \in DOMAIN det THEN det.mock_ocr_text ELSE << >>

\* what _use_existing_commentary_system appends for one detection; generated:
\* the commentator returned a commentary
_use_existing_commentary_system(mock_text, timestamp, generated) ==
  LET segment(event_type) ==
        [timestamp |-> timestamp,
         text |-> [template |-> 0,
                   player |-> _extract_player_from_text(mock_text),
                   weapon |-> _extract_weapon_from_text(mock_text)],
         caster |-> "commentator",
         event_type |-> event_type,
         player |-> _extract_player_from_text(mock_text),
         weapon |-> _extract_weapon_from_text(mock_text)]
  IN  IF ~generated THEN << >>
      ELSE IF Contains(<<"R","E","Q","U","E","S","T","I","N","G">>, mock_text)
      THEN << segment("requesting_weapon") >>
      ELSE IF Contains(<<"O","W","N","E","D">>, mock_text)
      THEN << segment("weapon_owned") >>
      ELSE << >>

\* one iteration of `for detection in detections` in either commentary system
commentary_step ==
  /\ a_pc \in {"existing", "backup"}
  /\ a_det_i <= Len(a_detections)
  /\ LET detection == a_detections[a_det_i]
         mock_text == mock_text_of(detection.detections[1])
     IN  IF a_pc = "existing"
         THEN \E generated \in BOOLEAN :
                a_segments' = a_segments \o
                  _use_existing_commentary_system(mock_text, detection.timestamp,
                                                  generated)
         ELSE \E template \in 1..BackupTemplates :
                a_segments' = a_segments \o
                  _generate_backup_commentary(mock_text, detection.timestamp,
                                              template)
  /\ a_det_i' = a_det_i + 1
  /\ UNCHANGED << a_pc, a_fps, a_total_frames, a_frame_count, processed_frames,
                  model_exists, buyphase, buycommentary, detections_file,
                  mock_detections_file, a_detections, a_saved >>
  /\ UNCHANGED << evars, vvars, bvars, cvars >>

\* the loop over the detections ends
commentary_done ==
  /\ a_pc \in {"existing", "backup"}
  /\ a_det_i > Len(a_detections)
  /\ a_pc' = "save"
  /\ UNCHANGED << a_fps, a_total_frames, a_frame_count, processed_frames,
                  model_exists, buyphase, buycommentary, detections_file,
                  mock_detections_file, a_detections, a_det_i, a_segments,
                  a_saved >>
  /\ UNCHANGED << evars, vvars, bvars, cvars >>

\* complete_results of save_final_results
complete_results ==
  [frames_extracted |-> Len(processed_frames),
   commentary_segments |-> a_segments]

save_final_results ==
  /\ a_pc = "save"
  /\ a_saved' = Append(a_saved, complete_results)
  /\ a_pc' = "done"
  /\ UNCHANGED << a_fps, a_total_frames, a_frame_count, processed_frames,
                  model_exists, buyphase, buycommentary, detections_file,
                  mock_detections_file, a_detections, a_det_i, a_segments >>
  /\ UNCHANGED << evars, vvars, bvars, cvars >>

NextAdvanced ==
  \/ analyze_video_properties
  \/ extract_frame
  \/ extract_done
  \/ run_buy_phase_detection
  \/ generate_ai_commentary
  \/ commentary_step
  \/ commentary_done
  \/ save_final_results

vars == << evars, vvars, bvars, cvars, avars >>

\* each specification runs one program; the other programs stay as constructed
EnhancedInit ==
  InitEnhanced /\ VideoStart("all", 2, 1, VideoFrames) /\ BridgeStart
    /\ ClassifierStart(<< >>, 90, 0)
    /\ AdvancedStart(2, 3, TRUE, "ok", "ok")

VideoInit ==
  InitVideo /\ EnhancedStart(2, ShortVideo, FALSE, 0) /\ BridgeStart
    /\ ClassifierStart(<< >>, 90, 0)
    /\ AdvancedStart(2, 3, TRUE, "ok", "ok")

BridgeInit ==
  BridgeStart /\ EnhancedStart(2, ShortVideo, FALSE, 0)
              /\ VideoStart("all", 2, 1, VideoFrames)
              /\ ClassifierStart(<< >>, 90, 0)
              /\ AdvancedStart(2, 3, TRUE, "ok", "ok")
    /\ AdvancedStart(2, 3, TRUE, "ok", "ok")

ClassifierInit ==
  InitClassifier /\ EnhancedStart(2, ShortVideo, FALSE, 0)
                 /\ VideoStart("all", 2, 1, VideoFrames) /\ BridgeStart
                 /\ AdvancedStart(2, 3, TRUE, "ok", "ok")

AdvancedInit ==
  InitAdvanced /\ EnhancedStart(2, ShortVideo, FALSE, 0)
               /\ VideoStart("all", 2, 1, VideoFrames) /\ BridgeStart
               /\ ClassifierStart(<< >>, 90, 0)

SpecAdvanced == AdvancedInit /\ [][NextAdvanced]_vars

SpecEnhanced == EnhancedInit /\ [][NextEnhanced]_vars

SpecVideo == VideoInit /\ [][NextVideo]_vars

\* a started thread keeps running and a called handler runs to its end; no
\* command has to arrive
SpecBridge ==
  /\ BridgeInit
  /\ [][NextBridge]_vars
  /\ \A t \in Workers : WF_vars(commentary_loop(t))
  /\ WF_vars(stop_commentary_session)
  /\ WF_vars(stop_join)

SpecClassifier == ClassifierInit /\ [][NextClassifier]_vars

\* Scenario D: a recording of 24 seconds
ScenarioDSeconds == 24

\* the enhanced commentator on a 24 second recording at 2 frames per second
ScenarioDInit ==
  /\ \E voice \in BOOLEAN, g \in 0..MaxSeed :
       EnhancedStart(2, 2 * ScenarioDSeconds, voice, g)
  /\ VideoStart("all", 2, 1, VideoFrames)
  /\ BridgeStart
  /\ ClassifierStart(<< >>, 90, 0)
  /\ AdvancedStart(2, 3, TRUE, "ok", "ok")

SpecScenarioD == ScenarioDInit /\ [][NextEnhanced]_vars


(***************************************************************************)
(* Claims about EnhancedGameplayCommentator, checked under SpecEnhanced    *)
(***************************************************************************)
Segs == commentary_segments

\* _add_general_commentary has returned
FillFinished == e_pc \in {"synth", "done"}

IsSortedByTimestamp(segments) ==
  \A i \in 1..(Len(segments) - 1) :
    segments[i].timestamp <= segments[i + 1].timestamp

\* C1: no two segments of importance below OverrideImportance lie less than
\* MinInterval apart.
C1_LowImportanceSegmentsSpaced ==
  \A i, j \in 1..Len(Segs) :
    (i < j /\ Segs[i].importance < OverrideImportance
           /\ Segs[j].importance < OverrideImportance)
    => Abs(Segs[i].timestamp - Segs[j].timestamp) >= MinInterval

\* C3: every segment list handed to the results sink is sorted non-decreasing
\* by timestamp.
C3_SavedSegmentsSorted ==
  \A k \in 1..Len(saved_results) :
    IsSortedByTimestamp(saved_results[k].commentary_segments)

\* C3 witness: a saved list in which a filler, appended after the event
\* segments, carries an earlier timestamp than an event segment.
C3_Witness ==
  /\ saved_results /= << >>
  /\ \E i, j \in 1..Len(saved_results[1].commentary_segments) :
       LET l == saved_results[1].commentary_segments
       IN  /\ l[i].event_type = "general"
           /\ l[j].event_type /= "general"
           /\ l[i].timestamp < l[j].timestamp

\* C4: the stored round number never decreases from one frame to the next.
C4_RoundNeverDecreases ==
  [][last_score_info'.round >= last_score_info.round]_vars

\* C7: when the run has ended, every detected event is in the persisted
\* output, also the events that got no commentary.
C7_EveryEventPersisted ==
  e_pc = "done" =>
    /\ saved_results /= << >>
    /\ \A i \in 1..Len(events_detected) :
         \E k \in 1..Len(saved_results) :
           \E n \in 1..Len(saved_results[k].events_detected) :
             saved_results[k].events_detected[n] = events_detected[i]

\* C8: a step of the voice pass keeps the number, the text and the timestamp
\* of the segments; a failed synthesis leaves its segment without audio
\* reference and the pass goes on to the next segment, ending only after the
\* last one.
C8_SynthesisKeepsSegments ==
  [][ e_pc = "synth" =>
        /\ Len(commentary_segments') = Len(commentary_segments)
        /\ \A k \in 1..Len(commentary_segments) :
             /\ commentary_segments'[k].text = commentary_segments[k].text
             /\ commentary_segments'[k].timestamp = commentary_segments[k].timestamp
        /\ synth_i <= Len(commentary_segments) =>
             /\ e_pc' = "synth"
             /\ synth_i' = synth_i + 1
             /\ audio_files' = audio_files =>
                  commentary_segments'[synth_i].audio_file = "absent"
        /\ e_pc' = "done" =>
             /\ synth_i = Len(commentary_segments) + 1
             /\ saved_results'[1].commentary_segments = commentary_segments
    ]_vars

\* C8 witness: the run is saved with a segment whose synthesis failed followed
\* by a segment that was synthesised after it.
C8_Witness ==
  /\ e_pc = "done"
  /\ saved_results /= << >>
  /\ \E i, j \in 1..Len(Segs) :
       /\ i < j
       /\ Segs[i].audio_file = "absent"
       /\ Segs[j].audio_file /= "absent"

\* C9: every filler segment is at least FillProximity away from every other
\* segment of the list.
C9_FillerKeepsDistance ==
  \A i, j \in 1..Len(Segs) :
    (i /= j /\ Segs[i].event_type = "general")
    => Abs(Segs[i].timestamp - Segs[j].timestamp) >= FillProximity

\* C9 witness: a filler was emitted, and a filler candidate was passed over
\* because an event segment lies within FillProximity of it.
C9_Witness ==
  /\ FillFinished
  /\ \E i, j \in 1..Len(Segs) :
       /\ Segs[i].event_type = "general"
       /\ Segs[j].event_type /= "general"
       /\ \E c \in 0..current_time :
            /\ c % FillInterval = 0
            /\ BeforeEnd(c)
            /\ Abs(Segs[j].timestamp - c) < FillProximity

\* C10: once the fillers are added, no two consecutive segments of the list
\* are more than FillInterval apart.
C10_NoSilentGap ==
  FillFinished =>
    \A i, j \in 1..Len(Segs) :
      ( /\ Segs[i].timestamp < Segs[j].timestamp
        /\ ~ \E k \in 1..Len(Segs) :
               /\ Segs[i].timestamp < Segs[k].timestamp
               /\ Segs[k].timestamp < Segs[j].timestamp )
      => Segs[j].timestamp - Segs[i].timestamp <= FillInterval


\* a result of the timer region passes the confidence test and holds a
\* countdown, so detect_round_phase decides the phase from it
TimerRecognised(results) ==
  \E i \in 1..Len(results) : results[i].conf > 60 /\ TimerMatch(results[i].text)

\* C12: a frame whose timer text is absent or not recognised leaves the
\* tracked phase as it was before the frame.
C12_UnknownTimerKeepsPhase ==
  [][ \A f \in FrameInputs :
        (AnalyzeFrameWith(f) /\ ~TimerRecognised(f.timer))
        => last_round_phase' = last_round_phase ]_vars

\* a result of the scoreboard region passes the confidence test and holds a
\* score pair
ScoreParsed(results) ==
  \E i \in 1..Len(results) : results[i].conf > 70 /\ ScoreMatch(results[i].text)

\* the events a step has added to events_detected
NewEvents == SubSeq(events_detected', Len(events_detected) + 1, Len(events_detected'))

\* C13: a frame with a parsed score adds an economic_context event and sets
\* the stored round to the implied one exactly when the implied round is
\* greater than the stored round; otherwise it adds no such event and leaves
\* the stored score as it is.
C13_EconomicEventIffRoundGrows ==
  [][ \A f \in FrameInputs :
        (AnalyzeFrameWith(f) /\ ScoreParsed(f.score)) =>
          LET implied == FrameReading[f].score_info.round
              economic == \E i \in 1..Len(NewEvents) :
                            NewEvents[i].event_type = "economic_context"
          IN  IF implied > last_score_info.round
              THEN economic /\ last_score_info'.round = implied
              ELSE ~economic /\ last_score_info' = last_score_info ]_vars

(***************************************************************************)
(* Claims about VideoCommentaryGenerator, checked under SpecVideo          *)
(***************************************************************************)
\* the event types _classify_text_to_event produces
VideoEventTypes == {"requesting_weapon", "weapon_owned", "shield_owned"}

\* the importance weights (1..5) events can carry; a requesting_weapon event
\* has importance 3
ImportanceTables ==
  { imp \in [VideoEventTypes -> 1..5] : imp["requesting_weapon"] = 3 }

\* self.last_commentary_time when frame k was processed
LastEmission(k) ==
  LET emitted == { j \in 1..(k - 1) : frame_analysis[j].commentary /= << >> }
  IN  IF emitted = {} THEN 0
      ELSE frame_analysis[CHOOSE j \in emitted : \A i \in emitted : i <= j].timestamp

\* frame k had events and the rate limit returned None for them
SuppressedByRateLimit(k) ==
  /\ processors = "all"
  /\ frame_analysis[k].events /= << >>
  /\ frame_analysis[k].timestamp - LastEmission(k) < MinInterval

\* C2: whatever importance the event types carry, the rate limit suppresses
\* only events whose importance is below overrideImportance
C2_OverrideNeverSuppressed ==
  \A imp \in ImportanceTables :
    \A k \in 1..Len(frame_analysis) :
      SuppressedByRateLimit(k) =>
        \A i \in 1..Len(frame_analysis[k].events) :
          imp[frame_analysis[k].events[i].event_type] < OverrideImportance

\* no frame before frame k got commentary
NoEmissionBefore(k) ==
  \A j \in 1..(k - 1) : frame_analysis[j].commentary = << >>

\* C19: the events of a frame that arrive before any segment has been emitted
\* are not suppressed by the rate limit, whatever the frame's timestamp
C19_FirstEventNotThrottled ==
  \A k \in 1..Len(frame_analysis) :
    NoEmissionBefore(k) => ~SuppressedByRateLimit(k)

(***************************************************************************)
(* Claims about WebCommentaryBridge, checked under SpecBridge              *)
(***************************************************************************)
\* C5: once the stop handler is called, every worker loop that is alive at
\* that moment, running or paused, eventually exits
C5_StopEndsWorker ==
  \A t \in Workers :
    (handler_pc = "stop" /\ thread_pc[t] /= "free") ~> (thread_pc[t] = "free")

\* C6: at most one worker loop is alive at any time
C6_AtMostOneWorker == Cardinality(AliveWorkers) <= 1

(***************************************************************************)
(* Claims about Scenario D, checked under SpecScenarioD                    *)
(***************************************************************************)
\* the filler segments of the list
Fillers == SelectSeq(Segs, LAMBDA seg : seg.event_type = "general")

\* timestamp t (ticks) lies within the proximity window of second s
NearSecond(t, s) == Abs(t - s * TicksPerSecond) < FillProximity

\* C11: a 24 s run without real events ends with exactly two fillers, one
\* near t = 12 s and one near t = 24 s.
C11_ScenarioDFillers ==
  (FillFinished /\ events_detected = << >>) =>
    /\ Len(Fillers) = 2
    /\ \E i, j \in 1..Len(Fillers) :
         /\ i /= j
         /\ NearSecond(Fillers[i].timestamp, 12)
         /\ NearSecond(Fillers[j].timestamp, 2 * 12)


(***************************************************************************)
(* Claims about the classifiers                                            *)
(***************************************************************************)
\* the priority of the event types, highest first
Priority ==
  << "elimination", "headshot", "spike_plant", "spike_defuse",
     "requesting_weapon", "weapon_owned", "shield_owned", "ability_used",
     "general" >>

\* the rule of an event type matches the text
RuleMatches(event_type, text) ==
  CASE event_type = "elimination" -> WeaponsIn(text) /= {}
    [] event_type = "headshot" ->
         \/ Contains(<<"h","e","a","d","s","h","o","t">>, Lower(text))
         \/ Contains(<<"h","s">>, Lower(text))
    [] event_type = "spike_plant" ->
         \/ Contains(<<"P","L","A","N","T">>, Upper(text))
         \/ Contains(<<"S","P","I","K","E">>, Upper(text))
    [] event_type = "spike_defuse" -> Contains(<<"D","E","F","U","S">>, Upper(text))
    [] event_type = "requesting_weapon" ->
         /\ AnyIn(requesting_patterns, Lower(text))
         /\ MatchedWeapons(Lower(text)) /= {}
    [] event_type = "weapon_owned" ->
         /\ AnyIn(owned_patterns, Lower(text))
         /\ MatchedWeapons(Lower(text)) /= {}
    [] event_type = "shield_owned" ->
         /\ AnyIn(shield_patterns, Lower(text))
         /\ AnyIn(shield_owned_patterns, Lower(text))
    [] OTHER -> FALSE

\* the rules each region's classifier holds
RulesOf(region) ==
  CASE region = "kill_feed" -> {"elimination", "headshot"}
    [] region = "center" -> {"spike_plant", "spike_defuse"}
    [] region = "buy_menu" -> {"requesting_weapon", "weapon_owned", "shield_owned"}
    [] OTHER -> {}

\* the record passes the confidence filter of the region it was read in
Accepted ==
  CASE c_region = "kill_feed" -> c_record.conf > 50
    [] c_region = "center" -> c_record.conf > 60
    [] c_region = "scoreboard" -> c_record.conf > 70
    [] OTHER -> TRUE

\* ranks in Priority of the rules of the record's classifier that match its text
MatchingRanks ==
  { i \in 1..Len(Priority) :
      Priority[i] \in RulesOf(c_region) /\ RuleMatches(Priority[i], c_record.text) }

FirstRank == CHOOSE i \in MatchingRanks : \A j \in MatchingRanks : i <= j

AliasIn(w, text) ==
  \E a \in 1..Len(weapon_variants[w].variants) :
    Contains(weapon_variants[w].variants[a], Lower(text))

\* the w-th name of the advanced generator's list is in the text, in any case
NameIn(w, text) == Contains(Lower(advanced_weapons[w]), Lower(text))

\* C15: the weapon of a classified buy event is the canonical name of the
\* first-declared weapon of the table one of whose aliases is in the text
\* ("vandal ghost" resolves to vandal), in the buy-menu classifier and in the
\* advanced generator
C15_FirstDeclaredAliasWins ==
  /\ (c_pc = "done" /\ c_region = "buy_menu" /\ Len(c_events) = 1
        /\ c_events[1].event_type \in {"requesting_weapon", "weapon_owned"})
       => \E w \in 1..Len(weapon_variants) :
            /\ c_events[1].weapon = weapon_variants[w].weapon
            /\ AliasIn(w, c_record.text)
            /\ \A v \in 1..(w - 1) : ~AliasIn(v, c_record.text)
  /\ (c_pc = "done" /\ c_region = "backup" /\ Len(c_events) = 1
        /\ \E w \in 1..Len(advanced_weapons) : NameIn(w, c_record.text))
       => \E w \in 1..Len(advanced_weapons) :
            /\ c_events[1].weapon = advanced_weapons[w]
            /\ NameIn(w, c_record.text)
            /\ \A v \in 1..(w - 1) : ~NameIn(v, c_record.text)

\* a text with a misspelt vandal after a ghost has been resolved to vandal
C15_Witness ==
  /\ c_pc = "done"
  /\ c_region = "buy_menu"
  /\ Len(c_events) = 1
  /\ c_events[1].weapon = "vandal"
  /\ Contains(<<"g","h","o","s","t"," ","v","a","n","d","l">>, Lower(c_record.text))


\* the events of a frame without the timestamp of the frame
Unstamped(events) == StampAll(events, 0)

PlayerNamed(p, text) == Contains(Lower(players[p]), Lower(text))

\* the text names a requesting status, a known weapon and a known player
NamesRequest(text) ==
  /\ Contains(<<"r","e","q","u","e","s","t","i","n","g">>, Lower(text))
  /\ \E w \in 1..Len(advanced_weapons) : NameIn(w, text)
  /\ \E p \in 1..Len(players) : PlayerNamed(p, text)

\* the first known player and the first known weapon the text names
NamedPlayer(text) ==
  CHOOSE p \in 1..Len(players) :
    PlayerNamed(p, text) /\ \A q \in 1..(p - 1) : ~PlayerNamed(q, text)

NamedWeapon(text) ==
  CHOOSE w \in 1..Len(advanced_weapons) :
    NameIn(w, text) /\ \A v \in 1..(w - 1) : ~NameIn(v, text)

\* the known players as the events of VideoCommentaryGenerator would carry them
PlayerLabel == << "TenZ", "ScreaM", "Shroud", "Player1", "Player2" >>

\* the known weapons under the names of the weapons dict of _classify_text_to_event
WeaponLabel ==
  << "vandal", "phantom", "operator", "ghost", "sheriff", "spectre", "judge" >>

\* C18: a record whose text names a requesting status, a known weapon and a
\* known player, in any letter case, is classified as one requesting_weapon
\* event carrying that player, that weapon and the record's timestamp
\* ("REQUESTING VANDAL TENZ" at 12 s: TenZ, Vandal, 12 s)
C18_RequestCarriesPlayerAndWeapon ==
  (c_pc = "done" /\ c_region \in {"backup", "buy_menu"} /\ NamesRequest(c_record.text))
    => /\ Len(c_events) = 1
       /\ c_events[1].event_type = "requesting_weapon"
       /\ c_events[1].timestamp = c_record.timestamp
       /\ IF c_region = "backup"
          THEN /\ c_events[1].player = players[NamedPlayer(c_record.text)]
               /\ c_events[1].weapon = advanced_weapons[NamedWeapon(c_record.text)]
          ELSE /\ c_events[1].player = PlayerLabel[NamedPlayer(c_record.text)]
               /\ c_events[1].weapon = WeaponLabel[NamedWeapon(c_record.text)]


\* C20: a scoreboard text "a-b" read above the confidence threshold parses to
\* team1_score = a, team2_score = b and round = a + b + 1 ("12-10" gives 12,
\* 10 and round 23), for all scores a and b up to MaxScore
C20_ScoreTextParses ==
  \A a, b \in 0..MaxScore :
    (c_pc = "done" /\ c_region = "scoreboard" /\ Accepted
       /\ c_record.text = ScoreText(a, b))
      => c_score = [round |-> a + b + 1, team1_score |-> a, team2_score |-> b]

\* the text "12-10" has been parsed to round 23
C20_Witness ==
  /\ c_pc = "done"
  /\ c_region = "scoreboard"
  /\ c_record.text = <<"1","2","-","1","0">>
  /\ c_score.round = 23


(***************************************************************************)
(* Claims about AdvancedVideoCommentaryGenerator, checked under            *)
(* SpecAdvanced                                                            *)
(***************************************************************************)
\* the real detection backend is unavailable: no model file, or the import of
\* its module fails
Unavailable == ~model_exists \/ buyphase = "ImportError"

\* frames of the recording that fall on the sampling interval
SampledFrames == { n \in 0..(a_total_frames - 1) : n % a_frame_interval = 0 }

\* the run went through detection on the mock backend and lost no frame
DegradedToMock ==
  /\ a_pc /= "failed"
  /\ a_pc \in {"commentary", "existing", "backup", "save", "done"}
       => /\ mock_detections_file.exists
          /\ ~detections_file.exists
          /\ Len(processed_frames) = Cardinality(SampledFrames)
  /\ a_pc \in {"existing", "backup"}
       => a_detections = mock_detections_file.detections
  /\ a_pc = "done"
       => /\ Len(a_saved) = 1
          /\ a_saved[1].frames_extracted = Cardinality(SampledFrames)
          /\ a_saved[1].commentary_segments = a_segments

\* C21: when the real detection backend is unavailable the run is never
\* aborted, detection is done by the mock backend, no frame is lost, and the
\* results saved at the end hold every extracted frame and every segment
C21_UnavailableBackendDegrades == Unavailable => DegradedToMock

\* a run without the real backend has saved commentary made from mock detections
C21_Witness ==
  /\ Unavailable
  /\ a_pc = "done"
  /\ mock_detections_file.detections /= << >>
  /\ a_segments /= << >>
  /\ a_saved /= << >>


\* the fields of a detection record of the mock backend
MockSchema == DOMAIN MockDetection(0, [timestamp |-> 0]).detections[1]

\* C22: the detection records the commentary stage loads have the same fields
\* whichever backend wrote them, the recognized text the stage reads included
C22_SameSchema ==
  \A i \in 1..Len(a_detections) :
    DOMAIN a_detections[i].detections[1] = MockSchema

\* the mock backend has written at least as many records as there are statuses
MockRun ==
  /\ mock_detections_file.exists
  /\ Len(mock_detections_file.detections) >= Len(statuses)

\* the statuses whose word is in the recognized text of some mock record
StatusesOf(detections) ==
  {s \in 1..Len(statuses) :
     \E k \in 1..Len(detections) :
       Contains(statuses[s], mock_text_of(detections[k].detections[1]))}

\* C30: the records the mock backend writes for a run carry every status
\* (OWNED, REQUESTING and EQUIPPED), so that requesting and owned commentary
\* can both be made from them
C30_MockCoversEveryStatus ==
  MockRun => StatusesOf(mock_detections_file.detections) = 1..Len(statuses)


(***************************************************************************)
(* Further claims about EnhancedGameplayCommentator, checked under         *)
(* SpecEnhanced                                                            *)
(***************************************************************************)
\* C23: every iteration of the frame loop moves on in the recording and the
\* loop is left by exhausting the recording, for every frame count and every
\* positive frame rate
C23_FrameLoopAdvances ==
  [][AnalyzeFrame => (frame_count' > frame_count /\ e_pc' /= "crashed")]_vars

\* the successor of each phase in the cycle PREP -> BUY -> ACTION ->
\* POST_ROUND -> PREP
PhaseSuccessor(phase) ==
  CASE phase = "PREP_PHASE" -> "BUY_PHASE"
    [] phase = "BUY_PHASE" -> "ACTION_PHASE"
    [] phase = "ACTION_PHASE" -> "POST_ROUND"
    [] OTHER -> "PREP_PHASE"

\* C25: the tracked phase changes only from a phase to its successor in the
\* cycle PREP -> BUY -> ACTION -> POST_ROUND -> PREP
C25_PhaseFollowsCycle ==
  [][last_round_phase' /= last_round_phase
       => last_round_phase' = PhaseSuccessor(last_round_phase)]_vars

\* C26: when the run has ended, the segment list and the detected events have
\* been handed to the results sink, with or without the synthesis backend
C26_ResultsSavedWithoutVoice ==
  e_pc = "done" =>
    \E k \in 1..Len(saved_results) :
      /\ saved_results[k].commentary_segments = commentary_segments
      /\ saved_results[k].events_detected = events_detected


(***************************************************************************)
(* Further claims about WebCommentaryBridge, checked under SpecBridge      *)
(***************************************************************************)
\* a step of one of the control commands start, stop, pause and resume
ControlCommand ==
  \/ start_commentary_session
  \/ on_stop_commentary
  \/ stop_commentary_session
  \/ stop_join
  \/ pause_commentary
  \/ resume_commentary

\* C24: no step of a control command changes the game-state record the
\* worker reads and updates
C24_CommandsLeaveGameState ==
  [][ControlCommand => current_game_data' = current_game_data]_vars

\* C27: whenever the bridge is marked active, a worker loop is alive
C27_ActiveImpliesWorker == commentary_active => AliveWorkers /= {}

\* C28: once the commentary-stopped notification is the last message sent,
\* no commentary or game-update message follows it
C28_NoMessageAfterStopped ==
  [][sio_sent = "commentary-stopped"
       => sio_sent' \notin {"commentary", "game-update"}]_vars

\* a session has been started and not stopped, and it is paused
StartedAndPaused ==
  /\ is_alive(processing_thread)
  /\ ~stop_event
  /\ ~commentary_active
  /\ handler_pc = "idle"

\* no session has been started, or the last one has been stopped
NoSession == AliveWorkers = {} /\ ~commentary_active /\ handler_pc = "idle"

\* C29: resume brings a started and paused session back to active processing
\* whatever identifier the session was started with, and does nothing when no
\* session is started
C29_PauseResumeRestores ==
  /\ StartedAndPaused => resumed(commentary_active, session_id) = TRUE
  /\ NoSession => resumed(commentary_active, session_id) = commentary_active

=============================================================================
